---- MODULE Spec2Model ----
(***************************************************************************)
(* Model of scripts/web_scraper.py: the URL normalizer (normalize_url,     *)
(* is_valid_url, with the parts of urllib.parse they rest on) and the      *)
(* recursive crawl WebScraper.scrape with get_internal_links.              *)
(*                                                                         *)
(* A URL is a record [netloc, tail]: the scheme is the same for every URL  *)
(* (http), netloc is the authority as urlparse returns it (host and port,  *)
(* compared as one string by the code), and tail is the character string   *)
(* that follows the netloc: empty, or starting with "/", "?" or "#".       *)
(* Strings are sequences of one-character strings.                         *)
(***************************************************************************)
EXTENDS Integers, Sequences, FiniteSets, TLC

VARIABLES max_depth, visited_urls, results, stack, started,
          log, failed, outlinks, rejected, norm

\* max_depth, visited_urls, results: the fields of the WebScraper.
\* stack: the calls of scrape in progress, innermost first; a frame holds its
\*   url, its depth, where it stands ("fetch": about to fetch, "loop":
\*   iterating internal_links) and the links left to iterate.
\* started: main has called scrape.
\* log, failed, outlinks, rejected record the run: the fetches issued in
\*   order (url, depth, whether the delay preceded it), the URLs whose fetch
\*   failed, the same-domain links of every fetched page (page, target), and
\*   the hrefs is_valid_url refused.
\* norm: the arguments and results of normalize_url applied on its own.
vars == <<max_depth, visited_urls, results, stack, started,
          log, failed, outlinks, rejected, norm>>

crawlVars == <<max_depth, visited_urls, results, stack, started,
               log, failed, outlinks, rejected>>

\* Largest max_depth (--depth) explored; the smallest is -1.
MaxDepthBound == 2

\* Longest URL tail explored by the normalizer specification.
MaxLen == 3

----------------------------------------------------------------------------
(* Strings *)

\* The characters of URLs: three letters and the delimiters urlparse acts on.
Chars == {"a", "b", "c", "/", "?", "#", ";"}

\* Index of the first c in s at or after position from, 0 if none (str.find).
Find(s, c, from) ==
  LET I == {i \in from..Len(s) : s[i] = c}
  IN  IF I = {} THEN 0 ELSE CHOOSE i \in I : \A j \in I : i <= j

\* Index of the last c in s, 0 if none (str.rfind).
RFind(s, c) ==
  LET I == {i \in 1..Len(s) : s[i] = c}
  IN  IF I = {} THEN 0 ELSE CHOOSE i \in I : \A j \in I : i >= j

\* s.rstrip('/'): every trailing "/" removed.
RECURSIVE rstrip(_)
rstrip(s) ==
  IF s # <<>> /\ s[Len(s)] = "/" THEN rstrip(SubSeq(s, 1, Len(s) - 1)) ELSE s

----------------------------------------------------------------------------
(* urllib.parse, for absolute http URLs with a non-empty netloc *)

\* The parser and the normalizer are written as functions of the URL: a
\* function evaluates its argument once.
Strings == Seq(Chars)

Netloc(h, p) == [host |-> h, port |-> p]

Netlocs == [host : {"h", "x"}, port : {"", "81"}]

URLs == [netloc : Netlocs, tail : Strings]

\* urlparse's _splitparams: the params of the last path segment.
splitparams[url \in Strings] ==
  LET i == IF Find(url, "/", 1) # 0 THEN Find(url, ";", RFind(url, "/"))
           ELSE Find(url, ";", 1)
  IN  IF i = 0 THEN [path |-> url, params |-> <<>>]
      ELSE [path |-> SubSeq(url, 1, i - 1), params |-> SubSeq(url, i + 1, Len(url))]

\* url.split(c, 1): the text before the first c and the text after it.
split1[url \in Strings, c \in Chars] ==
  LET i == Find(url, c, 1)
  IN  IF i = 0 THEN <<url, <<>>>>
      ELSE <<SubSeq(url, 1, i - 1), SubSeq(url, i + 1, Len(url))>>

\* urlparse(url): the fragment is what follows the first "#", the query what
\* follows the first "?" of the rest, and the params are split off the path
\* when it holds a ";".
urlparse[u \in URLs] ==
  LET qu == split1[split1[u.tail, "#"][1], "?"]
      sp == IF Find(qu[1], ";", 1) # 0 THEN splitparams[qu[1]]
            ELSE [path |-> qu[1], params |-> <<>>]
  IN  [netloc |-> u.netloc, path |-> sp.path, params |-> sp.params,
       query |-> qu[2], fragment |-> split1[u.tail, "#"][2]]

Parsed == [netloc : Netlocs, path : Strings, params : Strings, query : Strings,
           fragment : Strings]

\* urlunparse: an empty params, query or fragment is written without its
\* delimiter.
urlunparse[p \in Parsed] ==
  [netloc |-> p.netloc,
   tail   |-> p.path
              \o (IF p.params # <<>> THEN <<";">> \o p.params ELSE <<>>)
              \o (IF p.query # <<>> THEN <<"?">> \o p.query ELSE <<>>)
              \o (IF p.fragment # <<>> THEN <<"#">> \o p.fragment ELSE <<>>)]

\* urljoin(self.base_url, url) for a url with the base's scheme and a netloc:
\* the url, parsed and written back.
urljoin[url \in URLs] == urlunparse[urlparse[url]]

----------------------------------------------------------------------------
(* WebScraper: the URL normalizer *)

\* self.base_url, and self.base_domain = urlparse(base_url).netloc.
base_url == [netloc |-> Netloc("h", ""), tail |-> <<"/">>]

base_domain == urlparse[base_url].netloc

\* Lines 66-72. The netloc is not empty and holds no "/": rstrip stops in the
\* tail.
normalize_url[url \in URLs] ==
  LET parsed    == urlparse[urljoin[url]]
      clean_url == parsed.path
                   \o (IF parsed.query # <<>> THEN <<"?">> \o parsed.query ELSE <<>>)
  IN  [netloc |-> parsed.netloc, tail |-> rstrip(clean_url)]

\* Line 62 comparing the host alone, whatever the port.
SameHostIsValid(url) == urlparse[url].netloc.host = base_domain.host

\* bool(parsed.netloc) and parsed.netloc == self.base_domain; the netloc of
\* every URL of the model is non-empty.
is_valid_url(url) == urlparse[url].netloc = base_domain

----------------------------------------------------------------------------
(* The pages of the site: what the anchors of a fetched page can hold *)

U(h, p, t) == [netloc |-> Netloc(h, p), tail |-> t]

\* The values urljoin(url, a['href']) takes on the pages of the site: /a with
\* a trailing slash, /b with a fragment, /c, and a page of another host.
Hrefs ==
  { U("h", "", <<"/", "a", "/">>), U("h", "", <<"/", "b", "#", "a">>),
    U("h", "", <<"/", "c">>), U("x", "", <<"/", "a">>) }

\* A smaller site with links back to the seed and more foreign links: the
\* seed, /a, /b, a page of another host and /a on another port of the base
\* host.
SmallSite ==
  { U("h", "", <<"/", "#", "a">>), U("h", "", <<"/", "a", "/">>),
    U("h", "", <<"/", "b", "#", "a">>),
    U("x", "", <<"/", "a">>), U("h", "81", <<"/", "a">>) }

----------------------------------------------------------------------------
(* WebScraper: the crawl *)

\* Line 314: the links of a page, normalized, same-domain and not yet
\* visited, as a set (list(set(links)): the order is arbitrary).
get_internal_links(hrefs) ==
  { normalize_url[h] :
      h \in { g \in hrefs : /\ is_valid_url(normalize_url[g])
                            /\ normalize_url[g] \notin visited_urls } }

\* Line 323 without the visited check, and without the depth check.
DroppedByDepthOnly(url, depth) == depth > max_depth

DroppedByVisitedOnly(url, depth) == url \in visited_urls

\* Line 323: the entry is dropped.
Dropped(url, depth) == url \in visited_urls \/ depth > max_depth

\* Line 328 with the delay before the first fetch too.
SleepsAlways(visited) == Cardinality(visited) > 0

\* Line 328: the delay is observed.
Sleeps(visited) == Cardinality(visited) > 1

\* Line 338: the page's links are followed.
Expands(depth) == depth < max_depth

\* Lines 340-341 with a loop that does not advance.
KeepLinks(links, link) == links

\* Lines 340-341: the links left to iterate once link is taken.
RestLinks(links, link) == links \ {link}

\* Lines 332-333 with the failure ending the whole run.
AbortRun(stk) == <<>>

\* Lines 332-333: what a failed fetch leaves of the call stack (the call
\* returns to its caller).
AfterFailure(stk) == Tail(stk)

\* Line 336 with the document inserted at the front.
PrependDoc(res, md) == <<md>> \o res

\* Line 336: self.results.append(md); the document of a page is identified
\* by the page's URL.
AppendDoc(res, md) == Append(res, md)

\* scrape(u0, depth), lines 321-329, called with the frames `under` below it:
\* either dropped (the call returns at once) or marked visited, delayed and
\* about to fetch.
Enter(u0, depth, under) ==
  LET url  == normalize_url[u0]
      drop == Dropped(url, depth)
  IN  /\ visited_urls' = IF drop THEN visited_urls ELSE visited_urls \cup {url}
      /\ log' = IF drop THEN log
                ELSE Append(log, [url |-> url, depth |-> depth,
                                  delayed |-> Sleeps(visited_urls \cup {url})])
      /\ stack' = IF drop THEN under
                  ELSE <<[url |-> url, depth |-> depth, pc |-> "fetch",
                          links |-> {}]>> \o under

\* main(): scraper.scrape(), url None replaced by base_url, depth 0.
Start ==
  /\ ~started
  /\ started' = TRUE
  /\ Enter(base_url, 0, <<>>)
  /\ UNCHANGED <<max_depth, results, failed, outlinks, rejected, norm>>

\* Lines 331-339, fetch_page returned the page: its document is appended and,
\* within depth, its links are extracted; beyond, the call returns.
FetchOkFrom(site) ==
  /\ stack # <<>>
  /\ Head(stack).pc = "fetch"
  /\ \E hrefs \in SUBSET site :
       LET f == Head(stack)
       IN  /\ results' = AppendDoc(results, f.url)
           /\ outlinks' = outlinks \cup
                 { <<f.url, normalize_url[normalize_url[h]]>> :
                     h \in { g \in hrefs : is_valid_url(normalize_url[g]) } }
           /\ IF Expands(f.depth)
              THEN /\ stack' = <<[f EXCEPT !.pc = "loop",
                                             !.links = get_internal_links(hrefs)]>>
                                \o Tail(stack)
                   /\ rejected' = rejected \cup
                         { g \in hrefs : ~is_valid_url(normalize_url[g]) }
              ELSE /\ stack' = Tail(stack)
                   /\ UNCHANGED rejected
  /\ UNCHANGED <<max_depth, visited_urls, started, log, failed, norm>>

FetchOk == FetchOkFrom(Hrefs)

\* Lines 331-333 with fetch_page (lines 74-87) returning None.
FetchFail ==
  /\ stack # <<>>
  /\ Head(stack).pc = "fetch"
  /\ failed' = failed \cup {Head(stack).url}
  /\ stack' = AfterFailure(stack)
  /\ UNCHANGED <<max_depth, visited_urls, results, started, log, outlinks,
                 rejected, norm>>

\* Lines 340-341: the next link of the page is submitted at depth + 1.
Recurse ==
  /\ stack # <<>>
  /\ Head(stack).pc = "loop"
  /\ \E link \in Head(stack).links :
       Enter(link, Head(stack).depth + 1,
             <<[Head(stack) EXCEPT !.links = RestLinks(Head(stack).links, link)]>>
             \o Tail(stack))
  /\ UNCHANGED <<max_depth, results, started, failed, outlinks, rejected, norm>>

\* Line 343: the links are exhausted and the call returns.
Return ==
  /\ stack # <<>>
  /\ Head(stack).pc = "loop"
  /\ Head(stack).links = {}
  /\ stack' = Tail(stack)
  /\ UNCHANGED <<max_depth, visited_urls, results, started, log, failed,
                 outlinks, rejected, norm>>

\* The outermost call of scrape has returned.
Done == started /\ stack = <<>>

\* The normalizer has not been applied: ru, rv and rru hold no result.
NoNorm == [u |-> base_url, v |-> base_url, ru |-> {}, rv |-> {}, rru |-> {}]

\* __init__ (lines 43-48); max_depth is --depth, any integer from -1.
Init ==
  /\ max_depth \in -1..MaxDepthBound
  /\ visited_urls = {}
  /\ results = <<>>
  /\ stack = <<>>
  /\ started = FALSE
  /\ log = <<>>
  /\ failed = {}
  /\ outlinks = {}
  /\ rejected = {}
  /\ norm = NoNorm

Next == Start \/ FetchOk \/ FetchFail \/ Recurse \/ Return

Spec == Init /\ [][Next]_vars

FetchOkSmall == FetchOkFrom(SmallSite)

FairNext == Start \/ FetchOkSmall \/ FetchFail \/ Recurse \/ Return

\* The crawl of the smaller site. It is one sequential call: it keeps taking
\* steps until it returns.
FairSpec == Init /\ [][FairNext]_vars /\ WF_vars(FairNext)

----------------------------------------------------------------------------
(* The normalizer on its own: normalize_url applied to a URL u, to a URL v  *)
(* that differs from u only by a trailing slash of the path or by the       *)
(* fragment, and to its own result.                                         *)

\* The tails of at most n characters, over one letter and the delimiters.
Tails(n) ==
  { t \in UNION { [1..k -> Chars \ {"b", "c"}] : k \in 0..n } :
      t = <<>> \/ t[1] \in {"/", "?", "#"} }

\* The text of a tail before its query and fragment, its query text (from the
\* first "?") and its fragment text (from the first "#").
FragText(t) == IF Find(t, "#", 1) = 0 THEN <<>> ELSE SubSeq(t, Find(t, "#", 1), Len(t))

NoFrag(t) == IF Find(t, "#", 1) = 0 THEN t ELSE SubSeq(t, 1, Find(t, "#", 1) - 1)

QueryText(t) ==
  IF Find(NoFrag(t), "?", 1) = 0 THEN <<>>
  ELSE SubSeq(NoFrag(t), Find(NoFrag(t), "?", 1), Len(NoFrag(t)))

PathText(t) ==
  IF Find(NoFrag(t), "?", 1) = 0 THEN NoFrag(t)
  ELSE SubSeq(NoFrag(t), 1, Find(NoFrag(t), "?", 1) - 1)

\* The URLs that differ from u at most by one trailing slash of the path and
\* by the fragment; the query text is the same.
Variants(u) ==
  LET p  == PathText(u.tail)
      ps == {p, p \o <<"/">>} \cup
            (IF p # <<>> /\ p[Len(p)] = "/" THEN {SubSeq(p, 1, Len(p) - 1)} ELSE {})
      fs == {FragText(u.tail), <<>>, <<"#", "a">>}
  IN  { [netloc |-> u.netloc, tail |-> q \o QueryText(u.tail) \o f] :
          q \in ps, f \in fs }

NormInit ==
  /\ max_depth = 0
  /\ visited_urls = {}
  /\ results = <<>>
  /\ stack = <<>>
  /\ started = FALSE
  /\ log = <<>>
  /\ failed = {}
  /\ outlinks = {}
  /\ rejected = {}
  /\ \E t \in Tails(MaxLen) :
       \E v \in Variants(U("h", "", t)) :
         norm = [NoNorm EXCEPT !.u = U("h", "", t), !.v = v]

NormalizeU ==
  /\ norm.ru = {}
  /\ norm' = [norm EXCEPT !.ru = {normalize_url[norm.u]}]
  /\ UNCHANGED crawlVars

NormalizeV ==
  /\ norm.rv = {}
  /\ norm' = [norm EXCEPT !.rv = {normalize_url[norm.v]}]
  /\ UNCHANGED crawlVars

NormalizeAgain ==
  /\ norm.ru # {}
  /\ norm.rru = {}
  /\ norm' = [norm EXCEPT !.rru = {normalize_url[r] : r \in norm.ru}]
  /\ UNCHANGED crawlVars

NormNext == NormalizeU \/ NormalizeV \/ NormalizeAgain

NormSpec == NormInit /\ [][NormNext]_vars

----------------------------------------------------------------------------
(* Properties of the crawl *)

HostOf(url) == urlparse[url].netloc.host

LogUrls == { log[i].url : i \in 1..Len(log) }

\* The fetch of url has been issued and has not returned yet.
Pending(url) ==
  stack # <<>> /\ Head(stack).pc = "fetch" /\ Head(stack).url = url

\* The position of url in the results, 0 if it has no document.
ResultIndex(url) ==
  IF \E i \in 1..Len(results) : results[i] = url
  THEN CHOOSE i \in 1..Len(results) : results[i] = url
  ELSE 0

\* The URLs fetched successfully, in the order their fetches were issued.
FetchedInOrder ==
  LET Ok(e) == e.url \notin failed /\ ~Pending(e.url)
      sel   == SelectSeq(log, Ok)
  IN  [i \in 1..Len(sel) |-> sel[i].url]

\* The URLs within k links of the seed, by the links of the fetched pages.
RECURSIVE Within(_)
Within(k) ==
  IF k <= 0 THEN {normalize_url[base_url]}
  ELSE Within(k - 1) \cup { e[2] : e \in { d \in outlinks : d[1] \in Within(k - 1) } }

\* C1: a fetch is issued at most once for each normalized URL, and exactly
\* the visited URLs are the ones a fetch was issued for.
FetchedAtMostOnce ==
  /\ \A i, j \in 1..Len(log) : log[i].url = log[j].url => i = j
  /\ LogUrls = visited_urls

\* C1 witness: the run is over and a fetched URL is linked from two pages.
LinkedTwiceFetchedOnce ==
  /\ Done
  /\ \E d, e \in outlinks : d[1] # e[1] /\ d[2] = e[2] /\ d[2] \in LogUrls

\* C2: every fetch is issued at a depth from 0 to max_depth, and an entry
\* beyond the bound leaves the visited set and the results as they were.
FetchWithinDepth ==
  /\ \A i \in 1..Len(log) : 0 <= log[i].depth /\ log[i].depth <= max_depth
  /\ max_depth < 0 => visited_urls = {} /\ results = <<>>

\* C2 witness: the seed entry, at depth 0, was beyond max_depth and dropped.
SeedDroppedBeyondDepth == Done /\ max_depth < 0 /\ log = <<>>

FailureSkipsOnlyThePage ==
  /\ [](\A u \in failed : /\ u \in visited_urls
                           /\ Cardinality({i \in 1..Len(log) : log[i].url = u}) = 1
                           /\ ResultIndex(u) = 0
                           /\ \A d \in outlinks : d[1] # u)
  /\ [][failed' # failed =>
          /\ results' = results
          /\ visited_urls' = visited_urls
          /\ outlinks' = outlinks
          /\ log' = log
          /\ stack' = Tail(stack)]_vars

\* C4 witness: after a failed fetch below the seed a sibling link was fetched.
SiblingFetchedAfterFailure ==
  \E i, j \in 1..Len(log) :
    /\ i < j
    /\ log[i].url \in failed
    /\ log[i].depth = log[j].depth
    /\ ResultIndex(log[j].url) # 0

\* C5: the results are the documents of the successfully fetched pages in
\* the order of their fetches, a page before the pages reached through it,
\* and the results only grow at the end.
ResultsInVisitOrder ==
  /\ [](/\ results = FetchedInOrder
        /\ \A k \in 1..Len(stack) - 1 :
             /\ ResultIndex(stack[k + 1].url) # 0
             /\ ResultIndex(stack[k].url) # 0
                  => ResultIndex(stack[k + 1].url) < ResultIndex(stack[k].url))
  /\ [][/\ Len(results') >= Len(results)
         /\ SubSeq(results', 1, Len(results)) = results]_vars

\* C5 witness: three documents, with a failed fetch between two of them.
ThreeDocumentsOneFailure ==
  /\ Len(results) >= 3
  /\ \E i \in 2..Len(log) - 1 : log[i].url \in failed

FrontierExhausted ==
  (Done /\ failed = {} /\ max_depth >= 0) => Within(max_depth) \subseteq visited_urls

\* C10: the delay precedes every fetch but the first.
DelayBeforeAllButFirst ==
  \A i \in 1..Len(log) : log[i].delayed <=> i > 1

\* C10 witness: a fetch issued after a failed fetch.
FetchAfterFailedFetch ==
  /\ Len(log) >= 3
  /\ log[2].url \in failed
  /\ log[3].delayed

----------------------------------------------------------------------------
(* Properties of the normalizer *)

\* C7: normalizing the result of normalize_url changes nothing.
NormalizeIdempotent == norm.rru # {} => norm.rru = norm.ru

\* C8: two URLs that differ only by a trailing slash of the path or by the
\* fragment normalize to the same string, and the query is retained.
SlashAndFragmentIgnored ==
  (norm.ru # {} /\ norm.rv # {}) =>
    /\ norm.ru = norm.rv
    /\ \A r \in norm.ru : urlparse[r].query = urlparse[norm.u].query

====
